---- MODULE Spec2Model ----
(***************************************************************************)
(* A model of the SCImago journal-ranking scraper: the command-line tool   *)
(* (journal_ranking.py) and the interactive form (ranking_app.py).         *)
(*                                                                         *)
(* Text is a sequence of one-character strings.  A Python value that may   *)
(* be None is a sequence of length 0 (None) or 1 (the value).              *)
(***************************************************************************)
EXTENDS Integers, Sequences, FiniteSets, TLC

(* ------------------------------ bounds -------------------------------- *)

\* Most <tr> rows of one listing page.
MaxRows == 2
\* Most <a href> links of one page handed to get_total_journals on its own.
MaxLinks == 3
\* Most query parameters of one link target.
MaxParams == 1
\* Most candidate links of one search-result page.
MaxCandidates == 2
\* Most <a> links of one journal profile page.
MaxCatLinks == 2

(* ------------------------- program constants -------------------------- *)

\* max_page * 50
PageSize == 50
\* if page > 100
PageLimit == 100

(* ------------------------------ values -------------------------------- *)

None == <<>>
Some(v) == <<v>>
IsNone(o) == o = <<>>
Get(o) == o[1]

\* The two entry points.
Impls == {"cli", "app"}

\* The sequences of length n over S.
SeqsOfLen(S, n) == [1..n -> S]

(* -------------------------------- text -------------------------------- *)

\* str.lower() on the characters in use.
LowerChar(c) ==
  CASE c = "A" -> "a"
    [] c = "B" -> "b"
    [] OTHER   -> c

Lower(s) == [k \in 1..Len(s) |-> LowerChar(s[k])]

\* Python's  needle in hay  on text.
Contains(needle, hay) ==
  \E k \in 0..(Len(hay) - Len(needle)) : SubSeq(hay, k + 1, k + Len(needle)) = needle

Digits == {"0", "1", "2", "3", "4", "5", "6", "7", "8", "9"}

DigitVal(c) ==
  CASE c = "0" -> 0 [] c = "1" -> 1 [] c = "2" -> 2 [] c = "3" -> 3 [] c = "4" -> 4
    [] c = "5" -> 5 [] c = "6" -> 6 [] c = "7" -> 7 [] c = "8" -> 8 [] c = "9" -> 9

RECURSIVE DigitsVal(_)
DigitsVal(s) ==
  IF s = <<>> THEN 0 ELSE 10 * DigitsVal(SubSeq(s, 1, Len(s) - 1)) + DigitVal(s[Len(s)])

AllDigits(s) == s # <<>> /\ \A k \in 1..Len(s) : s[k] \in Digits

\* int(text): an optional sign and decimal digits; None stands for ValueError.
ParseInt(s) ==
  IF AllDigits(s) THEN Some(DigitsVal(s))
  ELSE IF s # <<>> /\ s[1] \in {"+", "-"} /\ AllDigits(Tail(s))
       THEN Some((IF s[1] = "-" THEN -1 ELSE 1) * DigitsVal(Tail(s)))
       ELSE None

(* ------------------------ get_total_journals --------------------------- *)

\* A link target (href) is its query parameters in order, each a key and
\* the number its digits spell.
TotalSizes == {0, 2, 1500}
PageNums == {40}

Param(k, v) == [key |-> k, val |-> v]

Params ==
  {Param("total_size", v) : v \in TotalSizes} \cup {Param("page", v) : v \in PageNums}

Hrefs == UNION {SeqsOfLen(Params, n) : n \in 0..MaxParams}

\* re.search(key=(\d+), href): the first parameter named key, if any.
RECURSIVE ReSearch(_, _)
ReSearch(key, href) ==
  IF href = <<>> THEN None
  ELSE IF Head(href).key = key THEN Some(Head(href).val)
       ELSE ReSearch(key, Tail(href))

\* One pass of  for link in all_links  keeping the last value seen.
RECURSIVE MaxParamLast(_, _, _)
MaxParamLast(key, all_links, max) ==
  IF all_links = <<>> THEN max
  ELSE LET match == ReSearch(key, Head(all_links))
       IN  MaxParamLast(key, Tail(all_links), IF ~IsNone(match) THEN Get(match) ELSE max)

\* One pass of  for link in all_links  keeping the largest value seen.
RECURSIVE MaxParam(_, _, _)
MaxParam(key, all_links, max) ==
  IF all_links = <<>> THEN max
  ELSE LET match == ReSearch(key, Head(all_links))
       IN  MaxParam(key, Tail(all_links),
                    IF ~IsNone(match) /\ Get(match) > max THEN Get(match) ELSE max)

get_total_journals(all_links) ==
  LET max_total_size == MaxParam("total_size", all_links, 0)
      max_page       == MaxParam("page", all_links, 0)
  IN  IF max_total_size > 0 THEN Some(max_total_size)
      ELSE IF max_page > 0 THEN Some(max_page * PageSize)
      ELSE None

(* ------------------------- get_scimago_ranking ------------------------- *)

VARIABLES
  entry,            \* get_journal_categories: the entry point that runs it
  cat_pc,           \* get_journal_categories: "search", "profile" or "done"
  search_page,      \* get_journal_categories: the search response, once fetched
  journal_link,     \* get_journal_categories: the profile url selected
  real_title,       \* get_journal_categories: the title selected
  profile_page,     \* get_journal_categories: the profile response, once fetched
  categories,       \* get_journal_categories: what it returned
  soup_links,       \* get_total_journals on its own: the page's link targets
  total_pc,         \* get_total_journals on its own: "call" or "returned"
  total,            \* get_total_journals on its own: what it returned
  journal_name,     \* argument: the journal looked for
  category_id,      \* argument: the category listing to page through
  year,             \* argument: "" when no year was given
  pc,               \* per entry point: "fetch", "scan", "next" or "done"
  page,             \* per entry point: the page counter
  number_journals,  \* per entry point: get_total_journals of the current page
  table_rows,       \* per entry point: len(table_rows) of the current page
  category_name,    \* per entry point: get_category_name of the current page
  row_idx,          \* per entry point: position of  for row in table_rows
  result,           \* per entry point: what the function returned
  fetched,          \* per entry point: the requests made (see Fetched)
  shown,            \* per entry point: what its caller showed of the result
  row,              \* the row whose title matched, once one did
  passed,           \* the titles of the rows read before it and passed over
  served            \* the site: the responses given (see Served)

locVars == <<category_id, year, pc, page, number_journals,
             table_rows, category_name, row_idx, result, fetched, shown, row,
             passed, served>>
totVars == <<soup_links, total_pc, total>>
catVars == <<entry, cat_pc, search_page, journal_link, real_title, profile_page,
             categories>>
vars == <<journal_name, locVars, totVars, catVars>>

JournalNames == {<<"A">>}
CategoryIds == {"1702"}
Years == {"", "2018"}

\* The url of one listing page: year_param is empty unless a year was given.
Url(cat, p, y) == [category |-> cat, page |-> p, year |-> IF y # "" THEN Some(y) ELSE None]

\* The quartile classes checked last first.
QClassesReversed == <<"q4", "q3", "q2", "q1">>

\* for q_class in ['q1', 'q2', 'q3', 'q4']
QClasses == <<"q1", "q2", "q3", "q4">>
QClassSet == {"q1", "q2", "q3", "q4"}

RowTitles == {<<"a">>, <<"A", "b">>, <<"b">>}
RankTexts == {<<"1">>, <<"3">>, <<"1", ",", "0">>}

\* A <tr>: its "view journal details" anchor text if it has one, the text
\* of its <td> cells, and the quartile classes found inside it.
Rows ==
  [title_tag : {None} \cup {Some(t) : t \in RowTitles},
   cols      : {<<>>} \cup {<<r>> : r \in RankTexts},
   classes   : SUBSET QClassSet]

\* The links of a listing page, as far as get_total_journals reads them.
ListingLinks ==
  {<<>>, <<<<Param("total_size", 0)>>>>, <<<<Param("total_size", 2)>>>>,
   <<<<Param("page", 1)>>>>}

\* The <title> of a listing page: whether it holds the phrase
\* "Journal Rankings on", and the rest of its text.
PageTitles == {[phrase |-> TRUE, rest |-> " Artificial Intelligence"]}

\* What requests.get can come to: an exception, a status other than 200, or
\* a 200 page with its title, its links and its number of <tr> rows.
Responses ==
  {[raises |-> TRUE, status |-> 0, title |-> None, links |-> <<>>, nrows |-> 0],
   [raises |-> FALSE, status |-> 404, title |-> None, links |-> <<>>, nrows |-> 0]}
    \cup [raises : {FALSE}, status : {200}, title : {Some(t) : t \in PageTitles},
          links : ListingLinks, nrows : 0..MaxRows]

\* soup.title text with 'Journal Rankings on' taken out; "" without a title.
get_category_name(title) == IF IsNone(title) THEN "" ELSE Get(title).rest

\* The requests of one entry point, summed up: how many, the url of the
\* last one, and whether the k-th request asked for page k every time.
Fetched(f, url) ==
  [n |-> f.n + 1, last |-> Some(url), in_order |-> f.in_order /\ url.page = f.n + 1]

Kind(resp) ==
  IF resp.raises THEN "error"
  ELSE IF resp.status # 200 THEN "status"
  ELSE IF resp.nrows <= 1 THEN "empty"
  ELSE "data"

\* The responses of the site, summed up: how many, how many of them had
\* data rows, and the kind of the last one.
Served(s, resp) ==
  [n |-> s.n + 1, data |-> s.data + (IF Kind(resp) = "data" THEN 1 ELSE 0),
   last |-> Kind(resp)]

\* q_class.upper()
Upper(q) == CASE q = "q1" -> "Q1" [] q = "q2" -> "Q2" [] q = "q3" -> "Q3" [] q = "q4" -> "Q4"

\* for q_class in ['q1', 'q2', 'q3', 'q4']: the first class the row carries.
RECURSIVE FirstQuartile(_, _)
FirstQuartile(classes, qs) ==
  IF qs = <<>> THEN "N/A"
  ELSE IF Head(qs) \in classes THEN Upper(Head(qs))
       ELSE FirstQuartile(classes, Tail(qs))

Quartile(r) == FirstQuartile(r.classes, QClasses)

\* The title test seen as equality of the lower-cased texts.
MatchesExact(name, r) ==
  /\ ~IsNone(r.title_tag)
  /\ Lower(name) = Lower(Get(r.title_tag))

\* journal_name.lower() in curr_journal_title.lower()
Matches(name, r) ==
  /\ ~IsNone(r.title_tag)
  /\ Contains(Lower(name), Lower(Get(r.title_tag)))

\* if page > 100, seen as an off-by-one slip
LimitReachedEarly(p) == p >= PageLimit

\* if page > 100
LimitReached(p) == p > PageLimit

\* if len(table_rows) <= 1, seen as a test for no row at all
ExhaustedNoRow(n) == n = 0

\* if len(table_rows) <= 1
Exhausted(n) == n <= 1

\* An except clause that lets the exception through to the caller.
ExceptReraise(i) == [pc |-> "raised", result |-> None]

\* except Exception as e: print(...); break  -- and the loop's return None.
Except(i) == [pc |-> "done", result |-> None]

\* 100*int(rank)/number_journals formatted with two decimals, in hundredths
\* of a percent (ties to even).
Percentile(rank, count) ==
  LET n == 10000 * rank
      q == n \div count
      r == n % count
  IN  IF 2 * r > count \/ (2 * r = count /\ q % 2 = 1) THEN q + 1 ELSE q

\* The return statement of the command-line tool: the rank stays text.
ReturnCli(title, rank, count, r, p) ==
  Some([Journal |-> title, Rank |-> rank, Number_journals |-> count,
        Quartile |-> Quartile(r), Category_ID |-> category_id, Page_Found |-> p])

\* The return statement of the form: int(rank) and the division are
\* evaluated while the dictionary is built, and may raise.
ReturnApp(title, rank, count, r, cat_name) ==
  IF IsNone(ParseInt(rank)) \/ IsNone(count) \/ count = Some(0) THEN None
  ELSE Some([Journal |-> title,
             Category_name |-> <<cat_name>>,
             Category_Rank |-> [rank |-> rank, of |-> count],
             Percentile |-> Percentile(Get(ParseInt(rank)), Get(count)),
             Quartile |-> Quartile(r),
             Year |-> IF year = "" THEN "now" ELSE year])

Return(i, title, rank, count, r) ==
  IF i = "cli" THEN ReturnCli(title, rank, count, r, page[i])
  ELSE ReturnApp(title, rank, count, r, category_name[i])

At(label) == {i \in Impls : pc[i] = label}

\* Both entry points are driven by the same site: a response is served to
\* every entry point that asks for the page.
InStep(label) ==
  /\ At(label) # {}
  /\ \A i \in Impls : pc[i] \in {label, "done"}
  /\ \A i, j \in At(label) : page[i] = page[j] /\ row_idx[i] = row_idx[j]

\* get_total_journals is not being called on its own.
TotalIdle == soup_links = <<>> /\ total_pc = "off" /\ total = None

\* get_journal_categories is not running.
CatIdle ==
  /\ entry = "none" /\ cat_pc = "off"
  /\ search_page = None /\ journal_link = None /\ real_title = None
  /\ profile_page = None /\ categories = None

Init ==
  /\ TotalIdle
  /\ CatIdle
  /\ journal_name \in JournalNames
  /\ category_id \in CategoryIds
  /\ year \in Years
  /\ pc = [i \in Impls |-> "fetch"]
  /\ page = [i \in Impls |-> 1]
  /\ number_journals = [i \in Impls |-> None]
  /\ table_rows = [i \in Impls |-> 0]
  /\ category_name = [i \in Impls |-> ""]
  /\ row_idx = [i \in Impls |-> 0]
  /\ result = [i \in Impls |-> None]
  /\ fetched = [i \in Impls |-> [n |-> 0, last |-> None, in_order |-> TRUE]]
  /\ shown = [i \in Impls |-> "pending"]
  /\ row = None
  /\ passed = {}
  /\ served = [n |-> 0, data |-> 0, last |-> "none"]

\* The command-line tool's use of the result (__main__): the percentile is
\* computed outside any try.
MainCli(res) ==
  IF IsNone(res) THEN "not_found"
  ELSE IF IsNone(ParseInt(Get(res).Rank)) \/ IsNone(Get(res).Number_journals)
       THEN "fault"
       ELSE "found"

\* The form's use of the result: a table when there is data, else nothing.
RenderApp(res) == IF IsNone(res) THEN "blank" ELSE "found"

\* What the caller of get_scimago_ranking shows once it has returned.
Show(i, newpc, res) ==
  IF newpc = "raised" THEN "fault"
  ELSE IF newpc # "done" THEN shown[i]
  ELSE IF i = "cli" THEN MainCli(res) ELSE RenderApp(res)

\* One pass of the loop up to the row scan: build the url, fetch, check the
\* status, count the journals and the rows.
Fetch(resp) ==
  /\ fetched' = [i \in Impls |->
       IF pc[i] = "fetch" THEN Fetched(fetched[i], Url(category_id, page[i], year))
       ELSE fetched[i]]
  /\ served' = Served(served, resp)
  /\ pc' = [i \in Impls |->
       IF pc[i] # "fetch" THEN pc[i]
       ELSE IF resp.raises THEN Except(i).pc
       ELSE IF resp.status # 200 THEN "done"
       ELSE IF Exhausted(resp.nrows) THEN "done"
       ELSE "scan"]
  /\ number_journals' = [i \in Impls |->
       IF pc[i] = "fetch" /\ Kind(resp) \in {"empty", "data"}
       THEN get_total_journals(resp.links) ELSE number_journals[i]]
  /\ table_rows' = [i \in Impls |->
       IF pc[i] = "fetch" /\ Kind(resp) \in {"empty", "data"}
       THEN resp.nrows ELSE table_rows[i]]
  /\ category_name' = [i \in Impls |->
       IF pc[i] = "fetch" /\ i = "app" /\ Kind(resp) \in {"empty", "data"}
       THEN get_category_name(resp.title) ELSE category_name[i]]
  /\ row_idx' = [i \in Impls |->
       IF pc[i] = "fetch" /\ Kind(resp) \in {"empty", "data"} /\ ~Exhausted(resp.nrows)
       THEN 1 ELSE row_idx[i]]
  /\ shown' = [i \in Impls |-> Show(i, pc'[i], result[i])]
  /\ UNCHANGED <<journal_name, category_id, year, page, result, row, passed,
                 totVars, catVars>>

\* What one entry point does with the row it reads.
ScanOne(i, r) ==
  IF ~Matches(journal_name, r)
  THEN [pc |-> IF row_idx[i] + 1 > table_rows[i] THEN "next" ELSE "scan",
        result |-> None]
  ELSE IF r.cols = <<>> THEN Except(i)
  ELSE LET ret == Return(i, Get(r.title_tag), r.cols[1], number_journals[i], r)
       IN  IF IsNone(ret) THEN Except(i) ELSE [pc |-> "done", result |-> ret]

\* One pass of  for row in table_rows.
ScanRow(r) ==
  LET out == [i \in Impls |-> ScanOne(i, r)]
      hit == Matches(journal_name, r)
  IN  /\ pc' = [i \in Impls |-> IF pc[i] = "scan" THEN out[i].pc ELSE pc[i]]
      /\ result' = [i \in Impls |-> IF pc[i] = "scan" THEN out[i].result ELSE result[i]]
      /\ row_idx' = [i \in Impls |->
           IF pc[i] = "scan" /\ ~hit THEN row_idx[i] + 1 ELSE row_idx[i]]
      /\ row' = IF hit THEN Some(r) ELSE row
      /\ passed' = IF ~hit /\ ~IsNone(r.title_tag)
                    THEN passed \cup {Get(r.title_tag)} ELSE passed
      /\ shown' = [i \in Impls |-> Show(i, pc'[i], result'[i])]
      /\ UNCHANGED <<journal_name, category_id, year, page, number_journals,
                     table_rows, category_name, fetched, served, totVars, catVars>>

\* The end of a pass without a match: page += 1, sleep, the safety break.
NextPage ==
  /\ InStep("next")
  /\ page' = [i \in Impls |-> IF pc[i] = "next" THEN page[i] + 1 ELSE page[i]]
  /\ pc' = [i \in Impls |->
       IF pc[i] # "next" THEN pc[i]
       ELSE IF LimitReached(page[i] + 1) THEN "done" ELSE "fetch"]
  /\ shown' = [i \in Impls |-> Show(i, pc'[i], result[i])]
  /\ UNCHANGED <<journal_name, category_id, year, number_journals, table_rows,
                 category_name, row_idx, result, fetched, row, passed, served,
                 totVars, catVars>>

Next ==
  \/ InStep("fetch") /\ \E resp \in Responses : Fetch(resp)
  \/ InStep("scan") /\ \E r \in Rows : ScanRow(r)
  \/ NextPage

Spec == Init /\ [][Next]_vars

(* --------------------- get_total_journals on its own -------------------- *)

\* get_scimago_ranking is not running.
LocatorIdle ==
  /\ category_id = "" /\ year = ""
  /\ pc = [i \in Impls |-> "off"]
  /\ page = [i \in Impls |-> 0]
  /\ number_journals = [i \in Impls |-> None]
  /\ table_rows = [i \in Impls |-> 0]
  /\ category_name = [i \in Impls |-> ""]
  /\ row_idx = [i \in Impls |-> 0]
  /\ result = [i \in Impls |-> None]
  /\ fetched = [i \in Impls |-> [n |-> 0, last |-> None, in_order |-> TRUE]]
  /\ shown = [i \in Impls |-> "off"]
  /\ row = None
  /\ passed = {}
  /\ served = [n |-> 0, data |-> 0, last |-> "none"]

InitTotal ==
  /\ LocatorIdle
  /\ CatIdle
  /\ journal_name = <<>>
  /\ soup_links = <<>>
  /\ total_pc = "call"
  /\ total = None

\* get_total_journals(soup) on a page with the links all_links.
CallTotal(all_links) ==
  /\ soup_links' = all_links
  /\ total' = get_total_journals(all_links)
  /\ total_pc' = "returned"
  /\ UNCHANGED <<journal_name, locVars, catVars>>

NextTotal ==
  /\ total_pc = "call"
  /\ \E n \in 0..MaxLinks : \E all_links \in SeqsOfLen(Hrefs, n) : CallTotal(all_links)

SpecTotal == InitTotal /\ [][NextTotal]_vars

(* ------------------------ get_journal_categories ------------------------ *)

\* A link target of the search results: empty, relative or absolute.
SiteRoot == "https://www.scimagojr.com/"
CandidateHrefs ==
  {[base |-> "", path |-> ""],
   [base |-> "", path |-> "journalsearch.php?q=1&tip=sid"],
   [base |-> SiteRoot, path |-> "journalsearch.php?q=2&tip=sid"]}

\* if not journal_link.startswith("http"): prefix the site root.
Absolute(href) == IF href.base # "" THEN href ELSE [base |-> SiteRoot, path |-> href.path]

\* An <a> of the search results: its target and the text of its jrnlname
\* span, None when it has no such span.
Candidates ==
  [href : CandidateHrefs, span : {None, Some(<<"a">>), Some(<<"b">>)}]

\* The search response: requests.get raised, or a page with or without a
\* search_results container and the links inside it.
SearchPage(raises, containers, links) ==
  [raises |-> raises, containers |-> containers, links |-> links]

\* A selection: the link and title picked, or an exception on the way.
Picked(raised, link, title) == [raised |-> raised, link |-> link, title |-> title]

\* Lines 37-42 of the command-line tool: the first link of the first
\* container, whatever its title.
SelectCli(name, sp) ==
  IF sp.containers = 0 \/ sp.links = <<>> THEN Picked(FALSE, None, None)
  ELSE LET first_result == sp.links[1]
       IN  IF IsNone(first_result.span) THEN Picked(TRUE, Some(first_result.href), None)
           ELSE Picked(FALSE, Some(first_result.href), first_result.span)

\* for result in search_results: keep the link and title, stop at a title
\* equal to the name in lower case.
RECURSIVE LoopApp(_, _, _, _)
LoopApp(name, links, link, title) ==
  IF links = <<>> THEN Picked(FALSE, link, title)
  ELSE LET res == Head(links)
       IN  IF IsNone(res.span) THEN Picked(TRUE, Some(res.href), title)
           ELSE IF Lower(Get(res.span)) = Lower(name)
                THEN Picked(FALSE, Some(res.href), res.span)
                ELSE LoopApp(name, Tail(links), Some(res.href), res.span)

\* Lines 35-48 of the form: search_results[0] raises without a container.
SelectApp(name, sp) ==
  IF sp.containers = 0 THEN Picked(TRUE, None, None)
  ELSE LoopApp(name, sp.links, None, None)

Select(e, name, sp) == IF e = "cli" THEN SelectCli(name, sp) ELSE SelectApp(name, sp)

\* if not journal_link
Falsy(link) == IsNone(link) \/ Get(link) = [base |-> "", path |-> ""]

\* An <a> of the profile page: whether its target contains
\* journalrank.php?category=, the digits that follow (None when none does),
\* and its text.
CatIds == {"1702", "2210"}
CatNames == {"Artificial Intelligence", "Oceanography"}
CatLinks ==
  [marker : {TRUE}, id : {None} \cup {Some(c) : c \in CatIds}, text : CatNames]
    \cup [marker : {FALSE}, id : {None}, text : {"Home"}]

\* profile_soup.find_all("a", href=lambda href: ...)
RECURSIVE FindCatLinks(_)
FindCatLinks(links) ==
  IF links = <<>> THEN <<>>
  ELSE IF Head(links).marker THEN <<Head(links)>> \o FindCatLinks(Tail(links))
       ELSE FindCatLinks(Tail(links))

\* match.group(1) if match else "Unknown"
CatId(link) == IF IsNone(link.id) THEN "Unknown" ELSE Get(link.id)

\* The loop over cat_links with each name overwriting the one kept.
RECURSIVE CategoryMapLastName(_, _)
CategoryMapLastName(cat_links, map) ==
  IF cat_links = <<>> THEN map
  ELSE LET link == Head(cat_links)
           seen == {k \in 1..Len(map) : map[k].id = CatId(link)}
       IN  CategoryMapLastName(Tail(cat_links),
             IF seen = {} THEN Append(map, [id |-> CatId(link), name |-> link.text])
             ELSE [k \in 1..Len(map) |->
                     IF k \in seen THEN [id |-> CatId(link), name |-> link.text] ELSE map[k]])

\* for link in cat_links: if cat_id not in category_map: add it.  The map
\* keeps insertion order.
RECURSIVE CategoryMap(_, _)
CategoryMap(cat_links, map) ==
  IF cat_links = <<>> THEN map
  ELSE LET link == Head(cat_links)
       IN  CategoryMap(Tail(cat_links),
             IF \E k \in 1..Len(map) : map[k].id = CatId(link) THEN map
             ELSE Append(map, [id |-> CatId(link), name |-> link.text]))

\* What each entry point returns for the categories found.
CategoriesResult(e, title, link, map) ==
  IF e = "cli"
  THEN Some([journal |-> title,
             categories |-> [k \in 1..Len(map) |-> [name |-> map[k].name, id |-> map[k].id]],
             url |-> link])
  ELSE Some([journal |-> title,
             Category |-> [k \in 1..Len(map) |-> map[k].name],
             ids |-> [k \in 1..Len(map) |-> map[k].id]])

InitCat ==
  /\ LocatorIdle
  /\ TotalIdle
  /\ journal_name \in JournalNames
  /\ entry \in Impls
  /\ cat_pc = "search"
  /\ search_page = None /\ journal_link = None /\ real_title = None
  /\ profile_page = None /\ categories = None

\* The search: fetch, pick a link, make its url absolute.
Search(sp) ==
  LET pick == IF sp.raises THEN Picked(TRUE, None, None) ELSE Select(entry, journal_name, sp)
      found == ~pick.raised /\ ~Falsy(pick.link)
  IN  /\ search_page' = Some(sp)
      /\ journal_link' = IF found THEN Some(Absolute(Get(pick.link))) ELSE None
      /\ real_title' = IF found THEN pick.title ELSE None
      /\ cat_pc' = IF found THEN "profile" ELSE "done"
      /\ UNCHANGED <<entry, profile_page, categories, journal_name, locVars, totVars>>

\* The profile: fetch, collect the category links, return.
Profile(pp) ==
  /\ profile_page' = Some(pp)
  /\ categories' =
       IF pp.raises THEN None
       ELSE CategoriesResult(entry, real_title, journal_link,
                             CategoryMap(FindCatLinks(pp.links), <<>>))
  /\ cat_pc' = "done"
  /\ UNCHANGED <<entry, search_page, journal_link, real_title, journal_name,
                 locVars, totVars>>

NextCat ==
  \/ cat_pc = "search" /\ Search(SearchPage(TRUE, 0, <<>>))
  \/ cat_pc = "search" /\ Search(SearchPage(FALSE, 0, <<>>))
  \/ /\ cat_pc = "search"
     /\ \E n \in 0..MaxCandidates : \E links \in SeqsOfLen(Candidates, n) :
          Search(SearchPage(FALSE, 1, links))
  \/ cat_pc = "profile" /\ Profile([raises |-> TRUE, links |-> <<>>])
  \/ /\ cat_pc = "profile"
     /\ \E n \in 0..MaxCatLinks : \E links \in SeqsOfLen(CatLinks, n) :
          Profile([raises |-> FALSE, links |-> links])

SpecCat == InitCat /\ [][NextCat]_vars

(* ------------------------------- claims -------------------------------- *)

AllDone == \A i \in Impls : pc[i] = "done"

\* Every response so far was a 200 page with data rows, and no row read so
\* far matched the journal.
AllDataNoMatch == served.data = served.n /\ IsNone(row)

\* C1: when every listing page is a 200 page with at least two rows and no
\* row matches, the locator never asks for more than 100 pages nor for a
\* page above 100, is never about to fetch again after the 100th page, and
\* once it has returned it has returned None after asking for pages
\* 1..100 in order, page 100 last.
C1_SafetyCeiling ==
  AllDataNoMatch =>
    \A i \in Impls :
      /\ fetched[i].n <= PageLimit
      /\ ~IsNone(fetched[i].last) => Get(fetched[i].last).page <= PageLimit
      /\ pc[i] = "fetch" => fetched[i].n < PageLimit
      /\ pc[i] = "done" =>
           /\ IsNone(result[i])
           /\ fetched[i].n = PageLimit
           /\ fetched[i].in_order
           /\ Get(fetched[i].last).page = PageLimit

C1_Witness == AllDone /\ AllDataNoMatch /\ served.n = PageLimit

\* C2: when pages 1..N (N < 100) had data rows without a match and page
\* N+1 has no data row beyond a header, the locator has asked for exactly
\* the pages 1..N+1, in order and once each, and has returned None.
C2_Exhaustion ==
  (served.last = "empty" /\ served.data = served.n - 1 /\ IsNone(row)) =>
    \A i \in Impls :
      /\ pc[i] = "done"
      /\ IsNone(result[i])
      /\ fetched[i].n = served.n
      /\ fetched[i].in_order
      /\ Get(fetched[i].last).page = served.n
      /\ served.n <= PageLimit

C2_Witness ==
  /\ served.last = "empty" /\ served.data = 3 /\ served.n = 4 /\ IsNone(row)
  /\ \A i \in Impls : pc[i] = "done" /\ fetched[i].n = 4 /\ IsNone(result[i])

\* C3: once a fetch raised or came back with a status other than 200, the
\* locator has stopped: it fetches nothing more, has returned None, and has
\* raised nothing.
C3_FetchFailure ==
  served.last \in {"error", "status"} =>
    \A i \in Impls :
      /\ pc[i] = "done"
      /\ IsNone(result[i])
      /\ fetched[i].n = served.n
      /\ shown[i] # "fault"

C3_Witness ==
  /\ served.last = "error" /\ served.n = 3
  /\ \A i \in Impls : pc[i] = "done" /\ IsNone(result[i]) /\ fetched[i].n = 3

\* The total_size values the links carry: of each link target, the first
\* total_size parameter.
FoundTotalSizes(links) ==
  {v \in TotalSizes :
     \E k \in 1..Len(links) : \E j \in 1..Len(links[k]) :
       /\ links[k][j] = Param("total_size", v)
       /\ \A m \in 1..(j - 1) : links[k][m].key # "total_size"}

SetMax(S) == CHOOSE x \in S : \A y \in S : y <= x

\* C4 as stated: on every page with a total_size link, get_total_journals
\* returns the largest total_size found, whatever the page= parameters.
C4_AnyTotalSize ==
  (total_pc = "returned" /\ FoundTotalSizes(soup_links) # {}) =>
    total = Some(SetMax(FoundTotalSizes(soup_links)))

\* C4: on every page where some link carries a total_size above zero,
\* get_total_journals returns the largest total_size found, whatever the
\* page= parameters.
C4_PositiveTotalSize ==
  (total_pc = "returned" /\ \E v \in FoundTotalSizes(soup_links) : v > 0) =>
    total = Some(SetMax(FoundTotalSizes(soup_links)))

C4_Witness ==
  /\ total_pc = "returned"
  /\ soup_links = <<<<Param("page", 40)>>, <<Param("total_size", 1500)>>>>
  /\ total = Some(1500)

ExpectedQuartile(classes) ==
  IF "q1" \in classes THEN "Q1"
  ELSE IF "q2" \in classes THEN "Q2"
  ELSE IF "q3" \in classes THEN "Q3"
  ELSE IF "q4" \in classes THEN "Q4"
  ELSE "N/A"

\* C6: a returned record's quartile is the first of Q1, Q2, Q3, Q4 whose
\* class the matched row carries, "N/A" when it carries none; a row marked
\* q2 and q3 gives Q2.
C6_QuartilePrecedence ==
  \A i \in Impls :
    ~IsNone(result[i]) =>
      /\ ~IsNone(row)
      /\ Get(result[i]).Quartile = ExpectedQuartile(Get(row).classes)
      /\ Get(row).classes = {"q2", "q3"} => Get(result[i]).Quartile = "Q2"

C6_Witness ==
  /\ ~IsNone(row) /\ Get(row).classes = {"q2", "q3"}
  /\ \A i \in Impls : ~IsNone(result[i]) /\ Get(result[i]).Quartile = "Q2"

\* The rank and the total of a returned record, as each entry point holds them.
RankOf(i) ==
  IF i = "cli" THEN ParseInt(Get(result[i]).Rank)
  ELSE ParseInt(Get(result[i]).Category_Rank.rank)

TotalOf(i) ==
  IF i = "cli" THEN Get(result[i]).Number_journals ELSE Get(result[i]).Category_Rank.of

\* C7: in every returned record whose rank and total are both known,
\* 1 <= rank <= total.
C7_RankWithinTotal ==
  \A i \in Impls :
    (~IsNone(result[i]) /\ ~IsNone(RankOf(i)) /\ ~IsNone(TotalOf(i))) =>
      (1 <= Get(RankOf(i)) /\ Get(RankOf(i)) <= Get(TotalOf(i)))

\* The matched row has a first cell holding a plain integer.
RowWellFormed ==
  /\ ~IsNone(row)
  /\ Get(row).cols # <<>>
  /\ ~IsNone(ParseInt(Get(row).cols[1]))

\* C8: when the matched row sits on a page whose total is unknown, the
\* match is still returned and shown as found, without a fault.
C8_UnknownTotalStillFound ==
  \A i \in Impls :
    (RowWellFormed /\ IsNone(number_journals[i]) /\ pc[i] = "done") =>
      (~IsNone(result[i]) /\ shown[i] = "found")

\* C9: the two entry points ask for the same pages and agree on the
\* outcome: both None, or records with the same title, rank and quartile.
C9_EntryPointsAgree ==
  AllDone =>
    /\ fetched["cli"] = fetched["app"]
    /\ IsNone(result["cli"]) <=> IsNone(result["app"])
    /\ (~IsNone(result["cli"]) /\ ~IsNone(result["app"])) =>
         /\ Get(result["cli"]).Journal = Get(result["app"]).Journal
         /\ Get(result["cli"]).Rank = Get(result["app"]).Category_Rank.rank
         /\ Get(result["cli"]).Quartile = Get(result["app"]).Quartile

\* The category links of the fetched profile page: positions, ids, and the
\* positions where an id shows up for the first time.
ProfileLinks == Get(profile_page).links
CatPositions == {j \in 1..Len(ProfileLinks) : ProfileLinks[j].marker}
IdAt(j) == IF IsNone(ProfileLinks[j].id) THEN "Unknown" ELSE Get(ProfileLinks[j].id)
FirstPositions ==
  {j \in CatPositions : \A m \in CatPositions : m < j => IdAt(m) # IdAt(j)}

ReturnedIds ==
  IF entry = "cli"
  THEN [k \in 1..Len(Get(categories).categories) |-> Get(categories).categories[k].id]
  ELSE Get(categories).ids

ReturnedNames ==
  IF entry = "cli"
  THEN [k \in 1..Len(Get(categories).categories) |-> Get(categories).categories[k].name]
  ELSE Get(categories).Category

\* C5: get_journal_categories returns one entry per distinct category id,
\* in order of first discovery, each with the text of the first link seen
\* with that id; the list is as long as there are distinct ids.
C5_Deduplication ==
  (cat_pc = "done" /\ ~IsNone(categories)) =>
    /\ Len(ReturnedIds) = Cardinality({IdAt(j) : j \in CatPositions})
    /\ Len(ReturnedNames) = Len(ReturnedIds)
    /\ \A j \in FirstPositions :
         LET k == Cardinality({m \in FirstPositions : m <= j})
         IN  /\ k <= Len(ReturnedIds)
             /\ ReturnedIds[k] = IdAt(j)
             /\ ReturnedNames[k] = ProfileLinks[j].text

C5_Witness ==
  /\ cat_pc = "done" /\ ~IsNone(categories)
  /\ Len(ProfileLinks) = 2
  /\ \A j \in 1..2 : ProfileLinks[j].marker /\ ProfileLinks[j].id = Some("1702")
  /\ ProfileLinks[1].text = "Oceanography" /\ ProfileLinks[2].text = "Artificial Intelligence"
  /\ ReturnedIds = <<"1702">> /\ ReturnedNames = <<"Oceanography">>

\* The search results hold at least one candidate, each with a title and a
\* target.
CandidateLinks == Get(search_page).links
WellFormedSearch ==
  /\ ~IsNone(search_page)
  /\ ~Get(search_page).raises /\ Get(search_page).containers = 1
  /\ CandidateLinks # <<>>
  /\ \A k \in 1..Len(CandidateLinks) :
       ~IsNone(CandidateLinks[k].span) /\ CandidateLinks[k].href.path # ""

ExactCandidates ==
  {k \in 1..Len(CandidateLinks) : Lower(Get(CandidateLinks[k].span)) = Lower(journal_name)}

IsSelected(k) ==
  /\ journal_link = Some(Absolute(CandidateLinks[k].href))
  /\ real_title = CandidateLinks[k].span

\* C10: get_journal_categories selects a candidate whose title equals the
\* query ignoring case when there is one, and the first candidate otherwise.
C10_SelectionPolicy ==
  WellFormedSearch =>
    IF ExactCandidates # {} THEN \E k \in ExactCandidates : IsSelected(k)
    ELSE IsSelected(1)

\* A row whose title matched and whose first cell is not a plain integer.
MalformedRank(r) ==
  /\ ~IsNone(r) /\ Get(r).cols # <<>>
  /\ IsNone(ParseInt(Get(r).cols[1]))

\* C11: the step that reads a matching row whose first cell is not a plain
\* integer fails for that row only: each entry point goes on with the next
\* row or the next page, has returned no record, and its caller shows no
\* fault.
C11_MalformedRankSkipped ==
  [][\A i \in Impls :
       (pc[i] = "scan" /\ IsNone(row) /\ MalformedRank(row')) =>
         /\ pc'[i] \in {"scan", "next"}
         /\ IsNone(result'[i])
         /\ shown'[i] # "fault"]_vars

\* The title holds the journal name as a substring, ignoring case.
HoldsName(title) == Contains(Lower(journal_name), Lower(title))

\* C12: a returned record comes from the first matching row: its title,
\* rank and quartile are those of a row with a "view journal details" link
\* whose title holds the journal name ignoring case, the pages were asked
\* for in ascending order, and no row read before it on any fetched page
\* has such a title.
C12_FirstMatchWins ==
  \A i \in Impls :
    ~IsNone(result[i]) =>
      /\ ~IsNone(row)
      /\ ~IsNone(Get(row).title_tag)
      /\ HoldsName(Get(Get(row).title_tag))
      /\ Get(result[i]).Journal = Get(Get(row).title_tag)
      /\ Get(row).cols # <<>>
      /\ (IF i = "cli" THEN Get(result[i]).Rank
          ELSE Get(result[i]).Category_Rank.rank) = Get(row).cols[1]
      /\ Get(result[i]).Quartile = ExpectedQuartile(Get(row).classes)
      /\ fetched[i].in_order
      /\ \A t \in passed : ~HoldsName(t)

C12_Witness ==
  /\ \A i \in Impls : ~IsNone(result[i]) /\ Get(result[i]).Journal = <<"A", "b">>
  /\ passed = {<<"b">>}
  /\ served.n = 2
  /\ Get(row).title_tag = Some(<<"A", "b">>)

====
